---------------------------- MODULE Spec2Model ----------------------------
(***************************************************************************)
(* Model of the concurrency layer of jjk (src/src/utils.ts):               *)
(*   - class Lock: a promise-chained mutex with per-key coalescing;        *)
(*   - createThrottledAsyncFn: a trailing-edge throttle of an async fn.    *)
(*                                                                         *)
(* JavaScript runs one job at a time.  Every action below is one job (or   *)
(* one synchronous call made by the program's user inside a job): a        *)
(* promise reaction (microtask), a timer callback (macrotask), or the      *)
(* settlement of a task's promise by the environment.  A timer callback    *)
(* runs only when no promise reaction is pending; user code, and hence a   *)
(* call of acquire or of the throttled function, may run between any two   *)
(* jobs.                                                                   *)
(***************************************************************************)
EXTENDS Integers, Sequences, FiniteSets, TLC

\* ------------------------------------------------------------------ bounds
\* Number of acquire calls made on the Lock in one behaviour.
MaxCalls == 3

\* Number of calls of the throttled function in one behaviour.
MaxThrottleCalls == 3

\* Number of run calls made on the Deduplicator in one behaviour.
MaxDedupCalls == 3

\* Number of readFile calls made on the file system provider in one behaviour.
MaxReads == 3

\* Number of times the clock advances in one behaviour.
MaxTicks == 2

\* ------------------------------------------------------------- input sets
\* The value of an omitted deduplicationKey argument.
UNDEFINED == "<undefined>"

\* The deduplicationKey arguments tried: two real keys, the empty string and
\* the omitted argument.
KeyArgs == {"a", "b", "", UNDEFINED}

\* What the task function passed to acquire does when it is run.
Wills == {"resolve", "reject"}

\* The keys passed to Deduplicator.run, as in the test.
DedupKeys == {"1", "2"}

\* The fsPath of the resources read and of the open documents: two paths of a
\* repository that differ in case only, a third one, and a path no repository
\* owns.
Paths == {"/r/a.txt", "/r/A.txt", "/r/c.txt", "/x/b.txt"}

\* The query of a resource: a revision.
Queries == {"rev"}

\* The query of a resource that names the revision a diff starts from.
DiffQueries == {"diff"}

\* The resources whose content is resolved: a path a repository owns, read at
\* a revision or as the original of a diff, and a path no repository owns.
Resources == {<<"/r/a.txt", "rev">>, <<"/r/a.txt", "diff">>, <<"/x/b.txt", "rev">>}

\* The resource read time and again.
RefreshResources == {<<"/r/a.txt", "diff">>}

\* By how many milliseconds the clock advances between two reads.
ResolverDeltas == {1000}

\* The messages of the errors the repository accessor rejects with.
ErrorMessages == {"Error: No such path: a.txt", "Error: jj exited with 1"}

\* The documents that may be open (workspace.textDocuments): files, and a
\* document of the jj scheme.
Documents == {[scheme |-> "file", path |-> "/r/A.txt"], [scheme |-> "jj", path |-> "/r/a.txt"]}

\* By how many milliseconds the clock advances between two jobs.
TickDeltas == {121000, 179000, 180000}

\* Argument values of the throttled function.
ThrottleArgs == {"A", "B", "C"}

\* The repository roots signalled to onDidChangeRepository: a root that holds
\* the repository's paths, and the same root in another case.
Roots == {"/r", "/R"}

\* The paths read while change notifications are followed.
NotifierPaths == {"/r/a.txt", "/r/A.txt"}

\* The root signalled, the path read and the milliseconds by which the clock
\* advances where change notifications are followed over time.
StampRoots == {"/R"}

StampPaths == {"/r/a.txt"}

StampDeltas == {300000}

\* The operations of the FileSystemProvider that are not implemented.
UnsupportedOps == {"readDirectory", "createDirectory", "writeFile", "delete", "rename"}

VARIABLES
    \* ---- Lock
    calls,                      \* one record per acquire call, in arrival order
    lockPromise,                \* the call whose promise is Lock.lockPromise (0: the initial resolved promise)
    deduplicationKeyToWaiters,  \* Lock.deduplicationKeyToWaiters: key -> sequence of waiter calls
    timers,                     \* pending setTimeout(resolveOrRejectAllWaiters, 0) callbacks, FIFO
    events,                     \* start/end events of the task functions, as the test records them
    settleOrder,                \* the calls in the order their returned promises settled
    \* ---- createThrottledAsyncFn
    state,                      \* State.Idle | Running | Queued
    queuedArgs,
    queuedRunPromise,           \* the shared promise of the queued slot (0: null)
    queuedRunResolver,          \* the promise queuedRunResolver resolves (0: null)
    queuedRunRejector,          \* the promise queuedRunRejector rejects (0: null)
    promises,                   \* every promise the throttle created or fn returned
    tcalls,                     \* one record per call of the throttled function
    jobs,                       \* pending promise reactions of the throttle, FIFO
    \* ---- Deduplicator
    dcalls,                     \* one record per run call, in arrival order
    inFlightByKey,              \* key -> the call whose execution is in flight for the key
    devents,                    \* start/end events of the task functions, as the test records them
    \* ---- JJFileSystemProvider
    cache,                      \* JJFileSystemProvider.cache: uri.toString() -> CacheRow
    now,                        \* the clock, new Date().getTime()
    nextCleanup,                \* when setInterval runs cleanup next
    openDocs,                   \* workspace.textDocuments
    caseInsensitive,            \* isWindows || isMacintosh
    reads,                      \* per resource: its readFile calls and the last one recorded
    ticks,                      \* how many times the clock has advanced
    lastSweep,                  \* the time of the last cleanup and the cache it found
    \* ---- JJFileSystemProvider: change notification
    changedRepositoryRoots,     \* JJFileSystemProvider.changedRepositoryRoots
    mtime,                      \* JJFileSystemProvider.mtime
    focused,                    \* window.state.focused
    fired,                      \* the calls of _onDidChangeFile.fire: how many, and the events of the last
    waiting,                    \* the execution of _fireChangeEvents suspended in line 62 (0: none)
    pass,                       \* the last execution of _fireChangeEvents that began
    thrown,                     \* the unsupported operation that threw last ("none": none yet)
    signals,                    \* the roots onDidChangeRepository has been called with
    \* ---- JJFileSystemProvider: readFile after the record step
    rcalls                      \* one record per readFile call that reached an accessor

lockVars == <<calls, lockPromise, deduplicationKeyToWaiters, timers, events, settleOrder>>
throttleVars == <<state, queuedArgs, queuedRunPromise, queuedRunResolver, queuedRunRejector,
                  promises, tcalls, jobs>>
dedupVars == <<dcalls, inFlightByKey, devents>>
vars == <<calls, lockPromise, deduplicationKeyToWaiters, timers, events, settleOrder,
          state, queuedArgs, queuedRunPromise, queuedRunResolver, queuedRunRejector,
          promises, tcalls, jobs, dcalls, inFlightByKey, devents,
          cache, now, nextCleanup, openDocs, caseInsensitive, reads, ticks, lastSweep,
          changedRepositoryRoots, mtime, focused, fired, waiting, pass, thrown, signals, rcalls>>
providerVars == <<cache, now, nextCleanup, openDocs, caseInsensitive, reads, ticks, lastSweep>>
notifierVars == <<changedRepositoryRoots, mtime, focused, fired, waiting, pass, thrown, signals>>
resolverVars == <<rcalls>>

\* What the actions of one component leave alone.
nonLockVars == <<throttleVars, dedupVars, providerVars, notifierVars, resolverVars>>
nonThrottleVars == <<lockVars, dedupVars, providerVars, notifierVars, resolverVars>>
nonDedupVars == <<lockVars, throttleVars, providerVars, notifierVars, resolverVars>>
nonProviderVars == <<lockVars, throttleVars, dedupVars, notifierVars, resolverVars>>

\* =================================================================== Lock

\* "no outcome yet" of a promise.
NoOutcome == [isResolved |-> FALSE, value |-> 0]

\* The initial lockPromise: `new Promise((resolve) => resolve(null))`.
InitialOutcome == [isResolved |-> TRUE, value |-> 0]

\* The Error thrown by promiseCallback when the registration is missing.
AssertionError == -1

CallIds == 1..Len(calls)

\* The members of a sequence.
Range(s) == {s[i] : i \in 1..Len(s)}

\* `!deduplicationKey`: undefined and the empty string are falsy.
IsFalsyNever(deduplicationKey) == FALSE

IsFalsyUndefinedOnly(deduplicationKey) == deduplicationKey = UNDEFINED

IsFalsy(deduplicationKey) == deduplicationKey = UNDEFINED \/ deduplicationKey = ""

\* `waiters !== undefined` for the value of deduplicationKeyToWaiters.get(key).
HasRegistrationNever(key) == FALSE

HasRegistration(key) == key \in DOMAIN deduplicationKeyToWaiters

\* The outcome of running the task function of call c: every task returns (or
\* throws) a value of its own, the call's number.
TaskOutcome(c) == [isResolved |-> calls[c].will = "resolve", value |-> c]

\* A promise reaction of the Lock is pending in the microtask queue.
MicrotaskPending == \E c \in CallIds : calls[c].phase \in {"ready", "cont", "settling"}

\* A setTimeout callback runs in a later macrotask: only once the microtask
\* queue is empty.
TimerMayFireAtOnce == TRUE

TimerMayFire == ~MicrotaskPending

\* The call that created the registration of a key that has one: the last
\* call that went through line 297 with that key.
Registrar(key) ==
    LET S == {c \in CallIds : calls[c].key = key /\ calls[c].role = "trigger"}
    IN  IF S = {} THEN 0 ELSE CHOOSE c \in S : \A d \in S : d <= c

\* The initial lockPromise, resolved at construction.
InitialPromise == 0

\* The promise `then` is called on in lines 272 and 359: this.lockPromise.
ChainedOnInitial == InitialPromise

ChainedOn == lockPromise

\* `.then(cb, cb)`: the callback is also the rejection handler.
NoRejectionHandler == FALSE

HasRejectionHandler == TRUE

\* The callback chained on promise p is queued as a reaction at once when p is
\* already settled.
ChainedPhase(p) == IF p = InitialPromise \/ calls[p].phase = "done" THEN "ready" ELSE "queued"

\* The outcome of the promise a call's callback was chained on.
PrevOutcome(c) == IF calls[c].prev = InitialPromise THEN InitialOutcome ELSE calls[calls[c].prev].outcome

\* The record of a call.  cycle: the call whose registration the call joined
\* (itself for a call that runs its own task); early: the call was made
\* before the task of that registration was started; prev: the promise the
\* call's callback is chained on.
NewCall(key, will, role, prev, cycle) ==
    [key |-> key, will |-> will, role |-> role,
     phase |-> IF role = "waiter" THEN "pending" ELSE ChainedPhase(prev),
     outcome |-> NoOutcome, cycle |-> cycle, prev |-> prev,
     early |-> Registrar(key) # 0 /\ calls[Registrar(key)].phase \in {"queued", "ready"}]

\* acquire(fn, deduplicationKey)
Acquire(key, will) ==
    /\ Len(calls) < MaxCalls
    /\ LET id == Len(calls) + 1 IN
       IF IsFalsy(key)
       THEN /\ calls' = Append(calls, NewCall(key, will, "chain", ChainedOn, id))
            /\ lockPromise' = id
            /\ UNCHANGED deduplicationKeyToWaiters
       ELSE IF HasRegistration(key)
       THEN /\ calls' = Append(calls, NewCall(key, will, "waiter", InitialPromise, Registrar(key)))
            /\ deduplicationKeyToWaiters' =
                   [deduplicationKeyToWaiters EXCEPT ![key] = Append(@, id)]
            /\ UNCHANGED lockPromise
       ELSE /\ deduplicationKeyToWaiters' =
                   [k \in DOMAIN deduplicationKeyToWaiters \cup {key} |->
                       IF k = key THEN <<>> ELSE deduplicationKeyToWaiters[k]]
            /\ calls' = Append(calls, NewCall(key, will, "trigger", ChainedOn, id))
            /\ lockPromise' = id
    /\ UNCHANGED <<timers, events, settleOrder>>
    /\ UNCHANGED nonLockVars

\* The reaction of the promise the callback was chained on: calls fn (line
\* 272) or promiseCallback, which calls fn at once (line 315).  Without a
\* rejection handler a rejection would pass through to the derived promise.
StartTask(c) ==
    /\ calls[c].phase = "ready"
    /\ IF HasRejectionHandler \/ PrevOutcome(c).isResolved
       THEN /\ calls' = [calls EXCEPT ![c].phase = "running"]
            /\ events' = Append(events, <<"start", c>>)
       ELSE /\ calls' = [calls EXCEPT ![c].phase = "settling", ![c].outcome = PrevOutcome(c)]
            /\ UNCHANGED events
    /\ UNCHANGED <<lockPromise, deduplicationKeyToWaiters, timers, settleOrder>>
    /\ UNCHANGED nonLockVars

\* The promise returned by fn settles.  For an unkeyed call the chain promise
\* was resolved with it and follows it in the next reaction; for a keyed call
\* the continuation of `await fn()` is queued.
TaskSettles(c) ==
    /\ calls[c].phase = "running"
    /\ calls' = [calls EXCEPT ![c].phase = IF calls[c].role = "trigger" THEN "cont" ELSE "settling",
                              ![c].outcome = TaskOutcome(c)]
    /\ events' = Append(events, <<"end", c>>)
    /\ UNCHANGED <<lockPromise, deduplicationKeyToWaiters, timers, settleOrder>>
    /\ UNCHANGED nonLockVars

\* The outcome resolveOrRejectAllWaiters passes to the waiters (lines 330-338).
WaitersOutcomeAlwaysResolved(outcome) == [isResolved |-> TRUE, value |-> outcome.value]

WaitersOutcome(outcome) == outcome

\* this.deduplicationKeyToWaiters.delete(deduplicationKey), line 349: on both
\* outcomes.
DeleteOnSuccessOnly(key, outcome) ==
    IF outcome.isResolved
    THEN [k \in DOMAIN deduplicationKeyToWaiters \ {key} |-> deduplicationKeyToWaiters[k]]
    ELSE deduplicationKeyToWaiters

DeleteNoRegistration(key, outcome) == deduplicationKeyToWaiters

DeleteAllRegistrations(key, outcome) == [k \in {} |-> <<>>]

DeleteRegistration(key, outcome) ==
    [k \in DOMAIN deduplicationKeyToWaiters \ {key} |-> deduplicationKeyToWaiters[k]]

\* promiseCallback after `await fn()`, lines 316-356.
Continuation(c) ==
    /\ calls[c].phase = "cont"
    /\ LET key == calls[c].key IN
       IF ~HasRegistration(key)
       THEN /\ calls' = [calls EXCEPT ![c].phase = "settling",
                                      ![c].outcome = [isResolved |-> FALSE, value |-> AssertionError]]
            /\ UNCHANGED <<timers, deduplicationKeyToWaiters>>
       ELSE /\ timers' = Append(timers, [waiters |-> deduplicationKeyToWaiters[key],
                                         outcome |-> WaitersOutcome(calls[c].outcome),
                                         run |-> c])
            /\ deduplicationKeyToWaiters' = DeleteRegistration(key, calls[c].outcome)
            /\ calls' = [calls EXCEPT ![c].phase = "settling"]
    /\ UNCHANGED <<lockPromise, events, settleOrder>>
    /\ UNCHANGED nonLockVars

\* A promise that settles with the given outcome queues the callbacks chained
\* on it by `.then(cb, cb)`: on both outcomes.
UnblocksOnSuccess(outcome) == outcome.isResolved

Unblocks(outcome) == TRUE

\* The chain promise returned to the caller of call c settles; the callbacks
\* chained on it are queued as reactions.
SettleChain(c) ==
    /\ calls[c].phase = "settling"
    /\ calls' = [d \in CallIds |->
                    IF d = c THEN [calls[d] EXCEPT !.phase = "done"]
                    ELSE IF calls[d].prev = c /\ calls[d].phase = "queued" /\ Unblocks(calls[c].outcome)
                    THEN [calls[d] EXCEPT !.phase = "ready"]
                    ELSE calls[d]]
    /\ settleOrder' = Append(settleOrder, c)
    /\ UNCHANGED <<lockPromise, deduplicationKeyToWaiters, timers, events>>
    /\ UNCHANGED nonLockVars

\* The outcome resolveOrRejectAllWaiters settles the waiters with: the one its
\* closure captured when the run completed (`outcome`, lines 305-319), not
\* that of the last run of the key.
TimerOutcomeOfLastRun(t) ==
    LET S == {c \in CallIds : /\ calls[c].key = calls[t.run].key
                              /\ calls[c].role = "trigger"
                              /\ calls[c].phase \in {"cont", "settling", "done"}}
    IN  calls[CHOOSE c \in S : \A d \in S : d <= c].outcome

TimerOutcome(t) == t.outcome

\* resolveOrRejectAllWaiters, run by the timer.
TimerFires ==
    /\ timers # <<>>
    /\ TimerMayFire
    /\ LET t == Head(timers) IN
       /\ calls' = [d \in CallIds |->
                       IF d \in Range(t.waiters) /\ calls[d].phase = "pending"
                       THEN [calls[d] EXCEPT !.phase = "done", !.outcome = TimerOutcome(t)]
                       ELSE calls[d]]
       /\ settleOrder' = settleOrder \o t.waiters
    /\ timers' = Tail(timers)
    /\ UNCHANGED <<lockPromise, deduplicationKeyToWaiters, events>>
    /\ UNCHANGED nonLockVars

LockInit ==
    /\ calls = <<>>
    /\ lockPromise = InitialPromise
    /\ deduplicationKeyToWaiters = [k \in {} |-> <<>>]
    /\ timers = <<>>
    /\ events = <<>>
    /\ settleOrder = <<>>

LockNext ==
    \/ \E key \in KeyArgs, will \in Wills : Acquire(key, will)
    \/ \E c \in CallIds : StartTask(c)
    \/ \E c \in CallIds : TaskSettles(c)
    \/ \E c \in CallIds : Continuation(c)
    \/ \E c \in CallIds : SettleChain(c)
    \/ TimerFires

\* The keys of the calls whose settlement is followed to the end.
LiveKeyArgs == {"a", UNDEFINED}

LockLiveNext ==
    \/ \E key \in LiveKeyArgs, will \in Wills : Acquire(key, will)
    \/ \E c \in CallIds : StartTask(c)
    \/ \E c \in CallIds : TaskSettles(c)
    \/ \E c \in CallIds : Continuation(c)
    \/ \E c \in CallIds : SettleChain(c)
    \/ TimerFires

\* The event loop runs every promise reaction and every timer callback that
\* is due, and every task that was started settles.
LockFairness ==
    /\ WF_vars(\E c \in CallIds : StartTask(c))
    /\ WF_vars(\E c \in CallIds : TaskSettles(c))
    /\ WF_vars(\E c \in CallIds : Continuation(c))
    /\ WF_vars(\E c \in CallIds : SettleChain(c))
    /\ WF_vars(TimerFires)

\* -------------------------------------------------------- Lock: properties

\* The number of times the task function of call c was invoked.
Starts(c) == Cardinality({i \in 1..Len(events) : events[i] = <<"start", c>>})

\* The place of call c in the order of settlement (0: not settled).
SettledAt(c) ==
    IF c \in Range(settleOrder) THEN CHOOSE i \in 1..Len(settleOrder) : settleOrder[i] = c ELSE 0

\* The calls that joined the registration created by call t.
WaitersOf(t) == {w \in CallIds : calls[w].role = "waiter" /\ calls[w].cycle = t}

\* C1: at most one task is executing at any instant, and a task starts only
\* after the previously started task has settled: every start event but the
\* first directly follows an end event.
C1_MutualExclusion ==
    /\ Cardinality({c \in CallIds : calls[c].phase = "running"}) <= 1
    /\ \A i \in 1..Len(events) :
          events[i][1] = "start" =>
              \A j \in 1..(i - 1) :
                  events[j][1] = "start" => \E k \in (j + 1)..(i - 1) : events[k] = <<"end", events[j][2]>>

\* A task runs after a task that rejected, while a call with another key waits
\* on the chain.
C1_Witness ==
    \E c, d \in CallIds :
        /\ calls[c].phase = "running"
        /\ calls[c].prev # 0
        /\ ~calls[calls[c].prev].outcome.isResolved
        /\ calls[d].phase = "queued"
        /\ calls[d].key # calls[c].key

\* No two calls were given the same key.
NoSharedKey ==
    \A c, d \in CallIds :
        c # d /\ calls[c].key # UNDEFINED => calls[c].key # calls[d].key

\* C2: when no two calls share a key, the task events are exactly start(1),
\* end(1), start(2), end(2), ... in the order of the calls, and a call whose
\* promise is settling or settled has had both its events.
C2_ArrivalOrder ==
    NoSharedKey =>
        /\ \A i \in 1..Len(events) :
              events[i] = <<IF i % 2 = 1 THEN "start" ELSE "end", (i + 1) \div 2>>
        /\ \A c \in CallIds : calls[c].phase \in {"settling", "done"} => Len(events) >= 2 * c

\* Three calls with no shared key have all run, one of them rejecting.
C2_Witness ==
    /\ NoSharedKey
    /\ Len(calls) = 3
    /\ Len(events) = 6
    /\ \E c \in CallIds : calls[c].will = "reject" /\ c < 3
    /\ \E c \in CallIds : calls[c].key = "a"

\* C3: a call without a key is never coalesced: its own task is executed exactly
\* once (not at all while it waits its turn) and its promise settles with the
\* outcome of its own task.
C3_UnkeyedNeverCoalesced ==
    \A c \in CallIds :
        calls[c].key = UNDEFINED =>
            /\ calls[c].role = "chain"
            /\ Starts(c) = IF calls[c].phase \in {"queued", "ready"} THEN 0 ELSE 1
            /\ calls[c].phase = "done" => calls[c].outcome = TaskOutcome(c)

\* Three unkeyed calls, made while the first was still to settle, are settled,
\* each task run once, not all with the same kind of outcome.
C3_Witness ==
    /\ Len(calls) = 3
    /\ \A c \in CallIds : calls[c].key = UNDEFINED /\ calls[c].phase = "done" /\ Starts(c) = 1
    /\ \E c, d \in CallIds : calls[c].will # calls[d].will

\* C4: a call made with the key of a registration whose task has not been
\* started joins that registration: its own task is never executed, the
\* registered task is executed at most once, and the call settles with the
\* outcome of that single execution, as does the call that registered.
C4_Coalescing ==
    \A w \in CallIds :
        calls[w].early =>
            LET t == calls[w].cycle IN
            /\ t < w
            /\ calls[t].key = calls[w].key
            /\ Starts(w) = 0
            /\ Starts(t) <= 1
            /\ calls[w].phase = "done" => calls[w].outcome = TaskOutcome(t)
            /\ calls[t].phase = "done" => calls[t].outcome = TaskOutcome(t)

\* Three calls with one key, the last two made before the first task started,
\* have all rejected with the single execution's reason.
C4_Witness ==
    /\ Len(calls) = 3
    /\ calls[2].early /\ calls[3].early
    /\ \A c \in CallIds : calls[c].phase = "done" /\ calls[c].outcome = [isResolved |-> FALSE, value |-> 1]
    /\ Starts(1) = 1

\* C5: a call that found a registration for its key never has its own task
\* invoked; while pending it is in the registration's list or in the list a
\* timer holds; it settles with the outcome of the registered run; and at most
\* one run per key is queued or executing.
C5_NoNewExecutionWhileRegistered ==
    /\ \A w \in CallIds :
          calls[w].role = "waiter" =>
              /\ Starts(w) = 0
              /\ calls[w].phase = "pending" =>
                    \/ calls[w].key \in DOMAIN deduplicationKeyToWaiters /\ w \in Range(deduplicationKeyToWaiters[calls[w].key])
                    \/ \E i \in 1..Len(timers) : w \in Range(timers[i].waiters)
              /\ calls[w].phase = "done" => calls[w].outcome = TaskOutcome(calls[w].cycle)
    /\ \A k \in KeyArgs :
          Cardinality({c \in CallIds : /\ calls[c].key = k
                                       /\ calls[c].role = "trigger"
                                       /\ calls[c].phase \in {"queued", "ready", "running", "cont"}}) <= 1

\* A call that arrived while the run for its key was executing has been
\* settled with that run's outcome.
C5_Witness ==
    \E w \in CallIds :
        /\ calls[w].role = "waiter"
        /\ ~calls[w].early
        /\ calls[w].phase = "done"
        /\ calls[w].outcome = TaskOutcome(calls[w].cycle)

\* C6: when the task of a keyed run rejects, the call that triggered it and
\* every waiter of that cycle reject with the task's reason, the registration
\* is cleared once the run is over, and a later run for the same key executes
\* its own task and settles with its own outcome.
C6_KeyedFailure ==
    \A t \in CallIds :
        calls[t].role = "trigger" /\ calls[t].will = "reject" =>
            /\ calls[t].phase = "done" => calls[t].outcome = [isResolved |-> FALSE, value |-> t]
            /\ \A w \in WaitersOf(t) :
                  calls[w].phase = "done" => calls[w].outcome = [isResolved |-> FALSE, value |-> t]
            /\ calls[t].phase \in {"settling", "done"} =>
                  ~(HasRegistration(calls[t].key) /\ Registrar(calls[t].key) = t)
            /\ \A d \in CallIds :
                  d > t /\ calls[d].key = calls[t].key /\ calls[d].role = "trigger" =>
                      /\ calls[t].phase \in {"settling", "done"}
                      /\ calls[d].phase = "done" => calls[d].outcome = TaskOutcome(d) /\ Starts(d) = 1

\* A keyed run rejected, its waiter rejected with the same reason, and a later
\* call with the same key ran its own task and resolved.
C6_Witness ==
    /\ Len(calls) = 3
    /\ calls[1].role = "trigger" /\ calls[1].outcome = [isResolved |-> FALSE, value |-> 1]
    /\ calls[2].role = "waiter" /\ calls[2].phase = "done"
    /\ calls[2].outcome = [isResolved |-> FALSE, value |-> 1]
    /\ calls[3].role = "trigger" /\ calls[3].key = calls[1].key
    /\ calls[3].phase = "done" /\ calls[3].outcome = [isResolved |-> TRUE, value |-> 3]

\* C7: in no reachable state is a key's registration absent while one of the
\* waiters accumulated in it is still pending.
C7_RegistrationOutlivesWaiters ==
    \A w \in CallIds :
        calls[w].role = "waiter" /\ calls[w].phase = "pending" =>
            /\ HasRegistration(calls[w].key)
            /\ w \in Range(deduplicationKeyToWaiters[calls[w].key])

\* C8: when a run for a key is registered, every earlier cycle for that key has
\* fully settled: its run has finished, its registration is gone and every
\* one of its waiters has been settled.
C8_NewCycleAfterPriorSettled ==
    \A t, d \in CallIds :
        /\ t < d
        /\ calls[t].role = "trigger" /\ calls[d].role = "trigger"
        /\ calls[t].key = calls[d].key
        => /\ calls[t].phase \in {"settling", "done"}
           /\ \A w \in WaitersOf(t) : calls[w].phase = "done"

\* C9: no step that settles a waiter also settles a run or a call that ran its
\* own task, and when a waiter is settled the promise of the call that
\* triggered the execution of its cycle has already settled.
C9_DeferredWaiters ==
    [][/\ \A w \in CallIds :
             calls[w].phase = "pending" /\ calls'[w].phase = "done" =>
                 /\ events' = events
                 /\ \A c \in CallIds : calls[c].role # "waiter" => calls'[c] = calls[c]
       /\ \A w \in DOMAIN calls' :
             calls'[w].role = "waiter" /\ calls'[w].phase = "done" =>
                 /\ calls'[calls'[w].cycle].phase = "done"
                 /\ calls'[w].cycle \in Range(settleOrder')
      ]_vars

\* A waiter has been settled, after the call that triggered the execution.
C9_Witness ==
    \E w \in CallIds :
        /\ calls[w].role = "waiter"
        /\ calls[w].phase = "done"
        /\ SettledAt(calls[w].cycle) > 0
        /\ SettledAt(calls[w].cycle) < SettledAt(w)

\* C31: the promises returned by acquire settle in the order in which the
\* calls were made, whatever their keys.
C31_SettleInCallOrder ==
    \A i, j \in 1..Len(settleOrder) : i < j => settleOrder[i] < settleOrder[j]

\* The keyed runs that have not completed: from the call of acquire that
\* registered the key up to the continuation of `await fn()`.
OpenRuns == {c \in CallIds : calls[c].role = "trigger" /\ calls[c].phase \in {"queued", "ready", "running", "cont"}}

\* C33: the assertion of promiseCallback never fires: from its first arrival
\* until its completion handler has run, the registration of a keyed run is
\* present, and it is the one that run created.
C33_AssertionNeverFires ==
    /\ \A c \in CallIds : calls[c].outcome.value # AssertionError
    /\ \A c \in OpenRuns : HasRegistration(calls[c].key) /\ Registrar(calls[c].key) = c

\* The run of one key completes, after its task rejected, while the run of
\* another key waits for its turn and a third call has joined the first.
C33_Witness ==
    \E c, d \in OpenRuns :
        /\ calls[c].phase = "cont" /\ ~calls[c].outcome.isResolved
        /\ calls[d].phase = "queued" /\ calls[d].key # calls[c].key
        /\ Len(deduplicationKeyToWaiters[calls[c].key]) = 1

\* The number of times the promise of call c was settled.
Settlements(c) == Cardinality({i \in 1..Len(settleOrder) : settleOrder[i] = c})

\* C37: a waiter is settled exactly once, with the outcome of the execution of
\* the cycle whose registration it joined, whatever later cycles of the key
\* do; once settled it stays as it is.
C37_WaiterSettledOnce ==
    [][\A w \in DOMAIN calls' :
          calls'[w].role = "waiter" =>
              LET t == calls'[w].cycle IN
              /\ t < w /\ calls'[t].role = "trigger" /\ calls'[t].key = calls'[w].key
              /\ Settlements(w)' = IF calls'[w].phase = "done" THEN 1 ELSE 0
              /\ calls'[w].phase = "done" =>
                    /\ calls'[t].phase = "done"
                    /\ calls'[w].outcome = [isResolved |-> calls'[t].will = "resolve", value |-> t]
              /\ w \in CallIds /\ calls[w].phase = "done" => calls'[w] = calls[w]
      ]_vars

\* A new cycle of the key was opened and completed before the timer of the
\* first cycle ran: the waiter of the first cycle has the outcome of the
\* first execution, which resolved, while the second rejected.
C37_Witness ==
    /\ Len(calls) = 3
    /\ calls[1].key = "a" /\ calls[2].key = "a" /\ calls[3].key = "a"
    /\ calls[2].role = "waiter" /\ calls[2].cycle = 1 /\ calls[3].role = "trigger"
    /\ settleOrder = <<1, 3, 2>>
    /\ calls[2].outcome = [isResolved |-> TRUE, value |-> 1]
    /\ calls[3].outcome = [isResolved |-> FALSE, value |-> 3]

\* The calls that run a task of their own.
Runners == {c \in CallIds : calls[c].role # "waiter"}

\* C38: a task that rejected does not block the Lock: the callback chained on
\* a settled promise does not stay queued, the tasks start in the order of
\* the calls, and a call whose promise settles has run its own task once and
\* holds that task's outcome.
C38_RejectionDoesNotBlock ==
    /\ \A c \in Runners :
          /\ calls[c].prev # InitialPromise /\ calls[calls[c].prev].phase = "done" =>
                calls[c].phase # "queued"
          /\ calls[c].phase \in {"settling", "done"} =>
                Starts(c) = 1 /\ calls[c].outcome = TaskOutcome(c)
    /\ \A i, j \in 1..Len(events) :
          i < j /\ events[i][1] = "start" /\ events[j][1] = "start" => events[i][2] < events[j][2]

\* A keyed task and an unkeyed task rejected, and the tasks queued behind
\* each of them ran in turn: the third call resolved with its own value.
C38_Witness ==
    /\ Len(calls) = 3
    /\ calls[1].key = "a" /\ calls[2].key = UNDEFINED
    /\ calls[1].outcome = [isResolved |-> FALSE, value |-> 1]
    /\ calls[2].outcome = [isResolved |-> FALSE, value |-> 2]
    /\ calls[3].phase = "done" /\ calls[3].outcome = [isResolved |-> TRUE, value |-> 3]
    /\ calls[2].prev = 1 /\ calls[3].prev = 2
    /\ events = <<<<"start", 1>>, <<"end", 1>>, <<"start", 2>>, <<"end", 2>>, <<"start", 3>>, <<"end", 3>>>>

\* C39: a call whose key is the empty string is treated as a call without a
\* key: it is chained on lockPromise, it joins no registration and creates
\* none, and its own task is executed once, with whose outcome it settles.
C39_EmptyKeyIsUnkeyed ==
    /\ ~HasRegistration("")
    /\ \A c \in CallIds :
          calls[c].key = "" =>
              /\ calls[c].role = "chain"
              /\ calls[c].cycle = c
              /\ lockPromise >= c
              /\ WaitersOf(c) = {}
              /\ Starts(c) = IF calls[c].phase \in {"queued", "ready"} THEN 0 ELSE 1
              /\ calls[c].phase = "done" => calls[c].outcome = TaskOutcome(c)

\* Three calls with the empty key, made before the first task started, ran
\* one after the other, each its own task, with outcomes of both kinds.
C39_Witness ==
    /\ Len(calls) = 3
    /\ \A c \in CallIds : calls[c].key = "" /\ calls[c].phase = "done" /\ Starts(c) = 1
    /\ calls[2].prev = 1 /\ calls[3].prev = 2
    /\ calls[1].will # calls[3].will
    /\ events[1] = <<"start", 1>> /\ events[3] = <<"start", 2>> /\ events[5] = <<"start", 3>>

\* Nothing is left to do: every call is settled and no timer is pending.
Quiescent == timers = <<>> /\ \A c \in CallIds : calls[c].phase = "done"

\* C36: when every started task settles and every timer fires, the promise of
\* every acquire call settles in the end, and no registration is left when
\* nothing is left to do.
C36_LockLiveness ==
    /\ \A c \in 1..MaxCalls :
          (Len(calls) >= c) ~> (Len(calls) >= c /\ calls[c].phase = "done")
    /\ [](Quiescent => DOMAIN deduplicationKeyToWaiters = {})

\* A call that ran a keyed task, its waiter and a call without a key are all
\* settled, and nothing is left.
C36_Witness ==
    /\ Len(calls) = 3
    /\ Quiescent
    /\ calls[1].role = "trigger" /\ calls[2].role = "waiter" /\ calls[3].role = "chain"
    /\ DOMAIN deduplicationKeyToWaiters = {}

\* ============================================================== Throttle

\* The value of a null queuedArgs.
NullArgs == "null"

PromiseIds == 1..Len(promises)

\* The executions of fn in flight: the promises fn returned that are pending.
InFlight == {r \in PromiseIds : promises[r].kind = "run" /\ promises[r].status = "pending"}

\* `state === State.Running || state === State.Queued`, line 134.
IsBusyOnlyWhenQueued == state = "Queued"

IsBusyAlways == TRUE

IsBusy == state = "Running" \/ state = "Queued"

\* The promise of a new execution, fn(...args): link is the queued promise its
\* outcome is passed on to by `.then(resolver, rejector)` in line 172 (0: none).
RunPromise(args, link) ==
    [kind |-> "run", status |-> "pending", value |-> 0, args |-> args, link |-> link]

\* The promise made in line 139.
QueuedPromise == [kind |-> "queued", status |-> "pending", value |-> 0, args |-> NullArgs, link |-> 0]

\* `state !== State.Queued`, line 137: the shared promise is made by the first
\* call of a window only.
NeedsQueuedPromiseAlways == TRUE

NeedsQueuedPromise == state # "Queued"

\* The record of a call of the throttled function: the arguments, the promise
\* returned, the state the call found and the executions of fn in flight
\* then.
TCall(args, promise) ==
    [args |-> args, promise |-> promise, from |-> state, inflight |-> InFlight]

\* The promise fn returned as throttledFn sees it: settled already when fn ran
\* to its end without suspending.
ReturnedBy(run, id, settled) ==
    IF settled THEN [run EXCEPT !.status = "resolved", !.value = id] ELSE run

\* The reactions queued when the promise of an execution settles, in the order
\* they were registered: the handlers of line 154 before those of line 172.
ReactionsWithoutLink(r, link) == <<[kind |-> "internal", run |-> r]>>

ReactionsOf(r, link) ==
    <<[kind |-> "internal", run |-> r]>> \o (IF link # 0 THEN <<[kind |-> "link", run |-> r]>> ELSE <<>>)

\* throttledFn(...args), lines 131-204; settled: the execution of fn it may
\* start runs to its end within the call.
ThrottledFnCall(args, settled) ==
    /\ Len(tcalls) < MaxThrottleCalls
    /\ queuedArgs' = args
    /\ IF IsBusy
       THEN IF NeedsQueuedPromise
            THEN /\ state' = "Queued"
                 /\ promises' = Append(promises, QueuedPromise)
                 /\ queuedRunPromise' = Len(promises) + 1
                 /\ queuedRunResolver' = Len(promises) + 1
                 /\ queuedRunRejector' = Len(promises) + 1
                 /\ tcalls' = Append(tcalls, TCall(args, Len(promises) + 1))
            ELSE /\ tcalls' = Append(tcalls, TCall(args, queuedRunPromise))
                 /\ UNCHANGED <<state, promises, queuedRunPromise, queuedRunResolver,
                                queuedRunRejector>>
       ELSE /\ state' = "Running"
            /\ promises' = Append(promises, ReturnedBy(RunPromise(args, 0), Len(promises) + 1, settled))
            /\ tcalls' = Append(tcalls, TCall(args, Len(promises) + 1))
            /\ UNCHANGED <<queuedRunPromise, queuedRunResolver, queuedRunRejector>>
    /\ jobs' = IF ~IsBusy /\ settled THEN jobs \o ReactionsOf(Len(promises) + 1, 0) ELSE jobs

\* throttledFn(...args), called by a user of the throttled function.
ThrottledFn(args) ==
    /\ ThrottledFnCall(args, FALSE)
    /\ UNCHANGED nonThrottleVars

\* The promise returned by fn settles: its reactions are queued in the order
\* they were registered, the handlers of line 154 before those of line 172.
FnSettles(r, status) ==
    /\ r \in InFlight
    /\ promises' = [promises EXCEPT ![r].status = status, ![r].value = r]
    /\ jobs' = jobs \o ReactionsOf(r, promises[r].link)
    /\ UNCHANGED <<state, queuedArgs, queuedRunPromise, queuedRunResolver, queuedRunRejector, tcalls>>
    /\ UNCHANGED nonThrottleVars

\* The value of a null queuedRunPromise, queuedRunResolver or queuedRunRejector.
NullPromise == 0

\* `queuedRunPromise = null`, and so on, lines 164-166 and 187-189.
KeptSlot(slot) == slot

ClearedSlot(slot) == NullPromise

\* `rejector(error)`, line 193: the shared promise q is rejected with the error
\* of the execution r.
LeftPending(q, r) == promises

RejectQueued(q, r) ==
    [promises EXCEPT ![q].status = "rejected", ![q].value = promises[r].value]

\* The reaction at the head of the queue starts the queued execution.
StartsQueuedRun ==
    /\ jobs # <<>>
    /\ Head(jobs).kind = "internal"
    /\ state = "Queued"
    /\ promises[Head(jobs).run].status = "resolved"

\* The handlers of runPromise.then, lines 155-199; settled: the execution of
\* fn they may start runs to its end within the recursive call.
RunReactionStep(settled) ==
    /\ jobs # <<>>
    /\ Head(jobs).kind = "internal"
    /\ LET r == Head(jobs).run IN
       IF state = "Queued"
       THEN IF promises[r].status = "resolved"
            THEN \* lines 159-172: the recursive call finds the state Idle
                 /\ queuedArgs' = queuedArgs
                 /\ state' = "Running"
                 /\ promises' = Append(promises, ReturnedBy(RunPromise(queuedArgs, queuedRunResolver),
                                                           Len(promises) + 1, settled))
            ELSE \* lines 184-193
                 /\ queuedArgs' = NullArgs
                 /\ state' = "Idle"
                 /\ promises' = RejectQueued(queuedRunRejector, r)
       ELSE /\ state' = "Idle"
            /\ UNCHANGED <<queuedArgs, promises>>
    /\ IF state = "Queued"
       THEN /\ queuedRunPromise' = ClearedSlot(queuedRunPromise)
            /\ queuedRunResolver' = ClearedSlot(queuedRunResolver)
            /\ queuedRunRejector' = ClearedSlot(queuedRunRejector)
       ELSE UNCHANGED <<queuedRunPromise, queuedRunResolver, queuedRunRejector>>
    /\ jobs' = IF StartsQueuedRun /\ settled
               THEN Tail(jobs) \o ReactionsOf(Len(promises) + 1, queuedRunResolver)
               ELSE Tail(jobs)
    /\ UNCHANGED tcalls

RunReaction ==
    /\ RunReactionStep(FALSE)
    /\ UNCHANGED nonThrottleVars

\* The handlers of line 172: resolver or rejector, called with the outcome of
\* the execution started for the queued callers.
LinkReaction ==
    /\ jobs # <<>>
    /\ Head(jobs).kind = "link"
    /\ LET r == Head(jobs).run
           q == promises[r].link
       IN  promises' = IF promises[q].status = "pending"
                       THEN [promises EXCEPT ![q].status = promises[r].status,
                                             ![q].value = promises[r].value]
                       ELSE promises
    /\ jobs' = Tail(jobs)
    /\ UNCHANGED <<state, queuedArgs, queuedRunPromise, queuedRunResolver, queuedRunRejector, tcalls>>
    /\ UNCHANGED nonThrottleVars

ThrottleInit ==
    /\ state = "Idle"
    /\ queuedArgs = NullArgs
    /\ queuedRunPromise = 0
    /\ queuedRunResolver = 0
    /\ queuedRunRejector = 0
    /\ promises = <<>>
    /\ tcalls = <<>>
    /\ jobs = <<>>

ThrottleNext ==
    \/ \E args \in ThrottleArgs : ThrottledFn(args)
    \/ \E r \in PromiseIds, status \in {"resolved", "rejected"} : FnSettles(r, status)
    \/ RunReaction
    \/ LinkReaction

\* The arguments of the calls whose settlement is followed to the end.
LiveThrottleArgs == {"A", "C"}

ThrottleLiveNext ==
    \/ \E args \in LiveThrottleArgs : ThrottledFn(args)
    \/ \E r \in PromiseIds, status \in {"resolved", "rejected"} : FnSettles(r, status)
    \/ RunReaction
    \/ LinkReaction

\* The event loop runs every promise reaction, and every execution of fn
\* settles.
ThrottleFairness ==
    /\ WF_vars(\E r \in PromiseIds, status \in {"resolved", "rejected"} : FnSettles(r, status))
    /\ WF_vars(RunReaction)
    /\ WF_vars(LinkReaction)

\* ------------------------------------------------------ Throttle: properties

\* C10: at most one execution of the wrapped fn is in flight at any instant.
C10_ThrottleMutualExclusion == Cardinality(InFlight) <= 1

\* The trailing execution is in flight, after the first one finished, and a
\* further call is queued behind it.
C10_Witness ==
    /\ state = "Queued"
    /\ \E r \in InFlight : promises[r].link # 0
    /\ \E r \in PromiseIds : promises[r].kind = "run" /\ promises[r].status = "resolved"

\* The executions of fn, in the order they were started.
Runs == {r \in PromiseIds : promises[r].kind = "run"}

\* The queued runs not yet started: the pending shared promises no execution
\* has been started for.
Backlog ==
    {q \in PromiseIds : /\ promises[q].kind = "queued"
                        /\ promises[q].status = "pending"
                        /\ \A r \in Runs : promises[r].link # q}

\* The calls that found the throttle in one of the given states.
CallsFrom(states) == {i \in 1..Len(tcalls) : tcalls[i].from \in states}

\* C11: however many calls are made while an execution is in flight, the
\* backlog never exceeds one queued run, at most one execution is started for
\* a shared promise, and a call that found the state Queued adds no execution.
C11_BacklogBound ==
    /\ Cardinality(Backlog) <= 1
    /\ Backlog \subseteq {queuedRunPromise}
    /\ \A q \in PromiseIds : Cardinality({r \in Runs : promises[r].link = q}) <= 1
    /\ Cardinality(Runs) <= Cardinality(CallsFrom({"Idle"})) + Cardinality(CallsFrom({"Running"}))
    /\ Cardinality({r \in Runs : promises[r].link # 0}) <= Cardinality(CallsFrom({"Running"}))

\* Several calls were made during the first execution and exactly one trailing
\* execution was started for them.
C11_Witness ==
    /\ Len(tcalls) >= 3
    /\ \A i \in 2..Len(tcalls) :
          tcalls[i].inflight = {tcalls[1].promise} /\ tcalls[i].promise = tcalls[2].promise
    /\ Cardinality(Runs) = 2
    /\ \E r \in InFlight : promises[r].link = tcalls[2].promise

\* C12: a call that found the throttle Running or Queued holds the shared
\* promise of its window, and that promise settles only with the outcome of
\* the execution started for it after the one in flight finished.
C12_QueuedCallersGetNextRun ==
    \A i \in CallsFrom({"Running", "Queued"}) :
        LET p == tcalls[i].promise IN
        /\ promises[p].kind = "queued"
        /\ tcalls[i].from = "Queued" => tcalls[i - 1].promise = p
        /\ promises[p].status # "pending" =>
              \E r \in Runs : /\ promises[r].link = p
                              /\ promises[p].value = r
                              /\ promises[p].status = promises[r].status

\* A step that runs the handlers of runPromise.then.
IsRunReactionStep == jobs # <<>> /\ Head(jobs).kind = "internal" /\ jobs' = Tail(jobs)

\* A step that is a call of the throttled function.
IsCallStep == Len(tcalls') = Len(tcalls) + 1

\* C13: when the handlers of a settled execution run while a run is Queued,
\* exactly one new execution starts, with the latest stored arguments, and
\* its outcome is chained into the shared promise; when nothing is Queued the
\* state becomes Idle and no execution starts.
C13_SettleStartsQueuedRun ==
    [][IsRunReactionStep =>
          IF state = "Queued"
          THEN /\ state' = "Running"
               /\ Len(promises') = Len(promises) + 1
               /\ promises'[Len(promises')] =
                     [kind |-> "run", status |-> "pending", value |-> 0,
                      args |-> queuedArgs, link |-> queuedRunPromise]
          ELSE /\ state' = "Idle"
               /\ promises' = promises
      ]_vars

\* C14: when calls A, B, C were made in that order, B and C while the
\* execution started by A was in flight, then once that execution is over
\* exactly two executions have been started, with A and with C, and the
\* callers of B and C hold one promise, which settles with the C-run's outcome.
C14_LastWriterWins ==
    /\ Len(tcalls) = 3
    /\ tcalls[1].args = "A" /\ tcalls[2].args = "B" /\ tcalls[3].args = "C"
    /\ tcalls[1].from = "Idle"
    /\ tcalls[2].inflight = {tcalls[1].promise} /\ tcalls[3].inflight = {tcalls[1].promise}
    /\ promises[tcalls[1].promise].status # "pending"
    /\ \A j \in 1..Len(jobs) : jobs[j].run # tcalls[1].promise
    => /\ tcalls[2].promise = tcalls[3].promise
       /\ Cardinality(Runs) = 2
       /\ \E r \in Runs :
             /\ promises[r].args = "C"
             /\ promises[r].link = tcalls[3].promise
             /\ promises[tcalls[3].promise].status # "pending" =>
                   /\ promises[tcalls[3].promise].value = r
                   /\ promises[tcalls[3].promise].status = promises[r].status

\* C15: a call in the Idle state starts fn within the call, with the call's
\* arguments, moves the state to Running and returns the promise of that
\* execution.
C15_IdleCallStartsRun ==
    [][IsCallStep /\ state = "Idle" =>
          LET call == tcalls'[Len(tcalls')] IN
          /\ state' = "Running"
          /\ Len(promises') = Len(promises) + 1
          /\ call.promise = Len(promises')
          /\ promises'[call.promise] =
                [kind |-> "run", status |-> "pending", value |-> 0, args |-> call.args, link |-> 0]
          /\ InFlight = {}
      ]_vars

\* The throttle went back to Idle and a later call has started an execution of
\* its own, which settled with its own outcome.
C15_Witness ==
    \E i \in 2..Len(tcalls) :
        /\ tcalls[i].from = "Idle"
        /\ tcalls[i].args # tcalls[1].args
        /\ promises[tcalls[i].promise].status = "rejected"
        /\ promises[tcalls[i].promise].value = tcalls[i].promise

\* C16: the state changes only from Idle to Running on a call, from Running
\* to Queued on a call, from Running to Idle when fn has finished with no
\* pending call, and from Queued to Running when fn has finished, with a new
\* execution; a call in the state Queued leaves it Queued.
C16_StateTransitions ==
    [][/\ state' # state =>
             \/ state = "Idle" /\ state' = "Running" /\ IsCallStep
             \/ state = "Running" /\ state' = "Queued" /\ IsCallStep
             \/ state = "Running" /\ state' = "Idle" /\ IsRunReactionStep
             \/ /\ state = "Queued" /\ state' = "Running" /\ IsRunReactionStep
                /\ Len(promises') = Len(promises) + 1
       /\ IsCallStep /\ state = "Queued" => state' = "Queued" /\ queuedArgs' = tcalls'[Len(tcalls')].args
      ]_vars

C34_ThrottleBookkeeping ==
    /\ state \in {"Idle", "Running", "Queued"}
    /\ state = "Queued" =>
          /\ queuedRunPromise \in PromiseIds
          /\ promises[queuedRunPromise].kind = "queued"
          /\ promises[queuedRunPromise].status = "pending"
          /\ queuedRunResolver = queuedRunPromise
          /\ queuedRunRejector = queuedRunPromise
    /\ state # "Queued" =>
          /\ queuedRunPromise = NullPromise
          /\ queuedRunResolver = NullPromise
          /\ queuedRunRejector = NullPromise
    /\ InFlight # {} => state \in {"Running", "Queued"}

\* The slots were set for a queued run, cleared when it was started, and set
\* again by a call made during the execution started for it.
C34_Witness ==
    /\ state = "Queued"
    /\ queuedRunPromise > 2
    /\ \E r \in InFlight : promises[r].link # 0 /\ promises[r].link # queuedRunPromise

\* Every promise the throttled function returned is settled and no reaction
\* is pending.
NoCallOutstanding ==
    /\ jobs = <<>>
    /\ \A i \in 1..Len(tcalls) : promises[tcalls[i].promise].status # "pending"

\* C40: when every execution of fn settles, every promise the throttled
\* function returned settles in the end, and once no call is outstanding the
\* state is Idle and no queued promise is left.
C40_ThrottleLiveness ==
    /\ \A i \in 1..MaxThrottleCalls :
          (Len(tcalls) >= i) ~>
              (Len(tcalls) >= i /\ promises[tcalls[i].promise].status # "pending")
    /\ [](NoCallOutstanding =>
            /\ state = "Idle"
            /\ queuedRunPromise = NullPromise
            /\ \A p \in PromiseIds : promises[p].status # "pending")
    /\ []<>(state = "Idle")

\* Three calls are settled, the two made during the first execution with the
\* outcome of the execution started for them, and the throttle is Idle.
C40_Witness ==
    /\ Len(tcalls) = 3
    /\ NoCallOutstanding
    /\ tcalls[2].from = "Running" /\ tcalls[3].from = "Queued"
    /\ Cardinality(Runs) = 2
    /\ promises[tcalls[3].promise].status = "rejected"
    /\ state = "Idle"

\* ========================================================== Deduplicator
\* Deduplicator.run(key, fn): calls with different keys run in parallel; a
\* call whose key has an execution in flight starts none and receives that
\* execution's result; once the execution settles the key is free.

DCallIds == 1..Len(dcalls)

\* The slot a key occupies: one per key.
DedupSlotShared(key) == "*"

DedupSlot(key) == key

\* An execution is in flight for the key.
DedupInFlightNever(key) == FALSE

DedupInFlight(key) == DedupSlot(key) \in DOMAIN inFlightByKey

\* The outcome of the task function of call c, a value of its own.
DedupTaskOutcome(c) == [isResolved |-> dcalls[c].will = "resolve", value |-> c]

\* run(key, fn)
DedupRun(key, will) ==
    /\ Len(dcalls) < MaxDedupCalls
    /\ LET id == Len(dcalls) + 1 IN
       IF DedupInFlight(key)
       THEN /\ dcalls' = Append(dcalls, [key |-> key, will |-> will, settled |-> FALSE,
                                         exec |-> inFlightByKey[DedupSlot(key)], outcome |-> NoOutcome])
            /\ UNCHANGED <<inFlightByKey, devents>>
       ELSE /\ dcalls' = Append(dcalls, [key |-> key, will |-> will, settled |-> FALSE,
                                         exec |-> id, outcome |-> NoOutcome])
            /\ inFlightByKey' = [k \in DOMAIN inFlightByKey \cup {DedupSlot(key)} |->
                                    IF k = DedupSlot(key) THEN id ELSE inFlightByKey[k]]
            /\ devents' = Append(devents, <<"start", id>>)
    /\ UNCHANGED nonDedupVars

\* The execution started by call c settles: the key is free again and every
\* call that received the execution settles with its outcome.
DedupTaskSettles(c) ==
    /\ dcalls[c].exec = c
    /\ ~dcalls[c].settled
    /\ devents' = Append(devents, <<"end", c>>)
    /\ inFlightByKey' = [k \in DOMAIN inFlightByKey \ {DedupSlot(dcalls[c].key)} |-> inFlightByKey[k]]
    /\ dcalls' = [d \in DCallIds |->
                     IF dcalls[d].exec = c
                     THEN [dcalls[d] EXCEPT !.settled = TRUE, !.outcome = DedupTaskOutcome(c)]
                     ELSE dcalls[d]]
    /\ UNCHANGED nonDedupVars

DedupInit ==
    /\ dcalls = <<>>
    /\ inFlightByKey = [k \in {} |-> 0]
    /\ devents = <<>>

DedupNext ==
    \/ \E key \in DedupKeys, will \in Wills : DedupRun(key, will)
    \/ \E c \in DCallIds : DedupTaskSettles(c)

\* --------------------------------------------------- Deduplicator: properties

\* The executions in flight: the calls that started a task not yet settled.
DedupExecuting == {c \in DCallIds : dcalls[c].exec = c /\ ~dcalls[c].settled}

\* C17: a run call made while an execution for its key was in flight starts no
\* execution of its own and settles with that execution's outcome; at no time
\* are two executions in flight for one key.
C17_DedupSingleFlight ==
    /\ \A w \in DCallIds :
          /\ dcalls[dcalls[w].exec].key = dcalls[w].key
          /\ dcalls[w].exec # w =>
                /\ dcalls[w].exec < w
                /\ \A i \in 1..Len(devents) : devents[i] # <<"start", w>>
                /\ dcalls[w].settled =>
                      dcalls[w].outcome = DedupTaskOutcome(dcalls[w].exec)
    /\ \A c, d \in DedupExecuting : dcalls[c].key = dcalls[d].key => c = d

\* Calls "1", "2", "1" were made together, as in the test: two executions
\* were started and the third call settled with the result of the first.
C17_Witness ==
    /\ Len(dcalls) = 3
    /\ dcalls[1].key = "1" /\ dcalls[2].key = "2" /\ dcalls[3].key = "1"
    /\ dcalls[3].exec = 1
    /\ dcalls[3].settled /\ dcalls[3].outcome = [isResolved |-> TRUE, value |-> 1]
    /\ devents = <<<<"start", 1>>, <<"start", 2>>, <<"end", 1>>, <<"end", 2>>>>

\* C18: a run call whose key has no execution in flight starts its execution
\* within the call, whatever executions are in flight for other keys.
C18_DedupParallel ==
    [][Len(dcalls') = Len(dcalls) + 1 =>
          LET id == Len(dcalls')
              key == dcalls'[id].key
          IN  (\A c \in DedupExecuting : dcalls[c].key # key) =>
                  /\ devents' = Append(devents, <<"start", id>>)
                  /\ DedupExecuting' = DedupExecuting \cup {id}
      ]_vars

\* The executions for two keys overlap: start A, start B, end A, end B.
C18_Witness ==
    /\ Len(dcalls) >= 2
    /\ dcalls[1].key # dcalls[2].key
    /\ devents = <<<<"start", 1>>, <<"start", 2>>, <<"end", 1>>, <<"end", 2>>>>

\* ================================================== JJFileSystemProvider

THREE_MINUTES == 1000 * 60 * 3

FIVE_MINUTES == 1000 * 60 * 5

\* path.toLowerCase(), on the paths of the model.
ToLowerCase(path) == IF path = "/r/A.txt" THEN "/r/a.txt" ELSE path

\* normalizePath: Windows and Mac are handled as case insensitive.
NormalizePath(path) == IF caseInsensitive THEN ToLowerCase(path) ELSE path

\* pathEquals(a, b)
PathEquals(a, b) == NormalizePath(a) = NormalizePath(b)

\* uri.toString(): the canonical string form of a Uri, the same for all Uri
\* objects of equal scheme, path and query.
UriToString(uri) == <<"jj", uri.path, uri.query>>

\* The key readFile stores a row under, line 155.
CacheKeyByObject(uri) == <<"object", uri.obj, uri.path, uri.query>>

CacheKey(uri) == UriToString(uri)

\* this.repositories.getRepositoryFromUri(uri): the answer of the workspace,
\* which owns the paths under /r.
HasRepositoryAlways(path) == TRUE

HasRepository(path) == path \in {"/r/a.txt", "/r/A.txt", "/r/c.txt"}

\* `isOpen` of cleanup, lines 91-93.
IsOpenAnyScheme(path) == \E d \in openDocs : PathEquals(d.path, path)

IsOpen(path) == \E d \in openDocs : d.scheme = "file" /\ PathEquals(d.path, path)

\* `now - row.timestamp < THREE_MINUTES`, line 95.
IsFreshInclusive(time, row) == time - row.timestamp <= THREE_MINUTES

IsFresh(time, row) == time - row.timestamp < THREE_MINUTES

\* map.set(key, row)
MapSet(map, key, row) == [k \in DOMAIN map \cup {key} |-> IF k = key THEN row ELSE map[k]]

\* The canonical identifier of a resource: its path and query.
Canonical(uri) == <<uri.path, uri.query>>

\* The number of readFile calls made so far.
ReadCount == LET ids == DOMAIN reads
                 Sum[S \in SUBSET ids] ==
                     IF S = {} THEN 0
                     ELSE LET id == CHOOSE x \in S : TRUE IN reads[id].n + Sum[S \ {id}]
             IN  Sum[ids]

\* The time of a read that never happened.
Never == 0 - 1

\* readFile(uri), up to `this.cache.set`, lines 145-155: the Uri is a new
\* object of the given path and query.
RecordRead(path, query) ==
    /\ ReadCount < MaxReads
    /\ LET id  == <<path, query>>
           uri == [obj |-> reads[id].n + 1, path |-> path, query |-> query]
       IN
       IF ~HasRepository(path)
       THEN /\ reads' = [reads EXCEPT ![id].n = @ + 1]
            /\ UNCHANGED cache
       ELSE /\ reads' = [reads EXCEPT ![id] = [n |-> @.n + 1, last |-> now,
                                                refreshed |-> @.last # Never /\ @.last < now]]
            /\ cache' = MapSet(cache, CacheKey(uri), [uri |-> uri, timestamp |-> now])
    /\ UNCHANGED <<now, nextCleanup, openDocs, caseInsensitive, ticks, lastSweep>>

\* readFile(uri) where what it answers is not looked at.
ReadFile(path, query) ==
    /\ RecordRead(path, query)
    /\ UNCHANGED nonProviderVars

\* The key a row that is kept gets in the new map, line 96.
SweepKeyByPath(row) == <<"jj", row.uri.path>>

SweepKey(row) == UriToString(row.uri)

\* cleanup(), run by setInterval every FIVE_MINUTES (line 45).
Cleanup ==
    /\ now >= nextCleanup
    /\ LET kept == {k \in DOMAIN cache : IsOpen(cache[k].uri.path) \/ IsFresh(now, cache[k])}
       IN  cache' = [s \in {SweepKey(cache[k]) : k \in kept} |->
                        cache[CHOOSE k \in kept : SweepKey(cache[k]) = s]]
    /\ nextCleanup' = nextCleanup + FIVE_MINUTES
    /\ lastSweep' = [at |-> now, before |-> cache]
    /\ UNCHANGED <<now, openDocs, caseInsensitive, reads, ticks>>
    /\ UNCHANGED nonProviderVars

\* Time passes.
Tick(delta) ==
    /\ ticks < MaxTicks
    /\ now' = now + delta
    /\ ticks' = ticks + 1
    /\ UNCHANGED <<cache, nextCleanup, openDocs, caseInsensitive, reads, lastSweep>>
    /\ UNCHANGED nonProviderVars

ProviderInit ==
    /\ cache = [k \in {} |-> 0]
    /\ now = 0
    /\ nextCleanup = FIVE_MINUTES
    /\ openDocs = Documents
    /\ caseInsensitive \in BOOLEAN
    /\ reads = [id \in Paths \X (Queries \cup DiffQueries) |-> [n |-> 0, last |-> Never, refreshed |-> FALSE]]
    /\ ticks = 0
    /\ lastSweep = [at |-> 0, before |-> [k \in {} |-> 0]]

ProviderNext ==
    \/ \E path \in Paths, query \in Queries : ReadFile(path, query)
    \/ Cleanup
    \/ \E delta \in TickDeltas : Tick(delta)

\* ------------------------------------------- JJFileSystemProvider: properties

\* A row is pinned: its path is open in a document of the file scheme, up to
\* the case of the letters where the platform ignores it.
Pinned(row) ==
    \E d \in openDocs :
        /\ d.scheme = "file"
        /\ \/ d.path = row.uri.path
           \/ caseInsensitive /\ ToLowerCase(d.path) = ToLowerCase(row.uri.path)

\* C19: a sweep at time now leaves in the cache exactly the previous entries
\* that are pinned or whose age is strictly less than 180 s, unchanged.
C19_SweepRetention ==
    [][nextCleanup' # nextCleanup =>
          /\ DOMAIN cache' = {k \in DOMAIN cache : Pinned(cache[k]) \/ now - cache[k].timestamp < 180000}
          /\ \A k \in DOMAIN cache' : cache'[k] = cache[k]
      ]_vars

\* The last sweep found an unpinned entry of age 179 s and retained it, an
\* unpinned entry of age 180 s or more and evicted it, and a pinned entry
\* older than 180 s and retained it.
C19_Witness ==
    /\ now = lastSweep.at
    /\ \E k \in DOMAIN lastSweep.before :
          /\ ~Pinned(lastSweep.before[k])
          /\ lastSweep.at - lastSweep.before[k].timestamp = 179000
          /\ k \in DOMAIN cache
    /\ \E k \in DOMAIN lastSweep.before :
          /\ ~Pinned(lastSweep.before[k])
          /\ lastSweep.at - lastSweep.before[k].timestamp >= 180000
          /\ k \notin DOMAIN cache
    /\ \E k \in DOMAIN lastSweep.before :
          /\ Pinned(lastSweep.before[k])
          /\ lastSweep.at - lastSweep.before[k].timestamp >= 180000
          /\ k \in DOMAIN cache

\* C20: the cache holds at most one entry per canonical resource identifier,
\* its timestamp is the time of the most recent read of that identifier that
\* reached the record step, and until a sweep every identifier so read has
\* its entry.
C20_CacheUpsert ==
    /\ \A k1, k2 \in DOMAIN cache :
          Canonical(cache[k1].uri) = Canonical(cache[k2].uri) => k1 = k2
    /\ \A k \in DOMAIN cache :
          LET r == reads[Canonical(cache[k].uri)] IN
          /\ r.last # Never
          /\ cache[k].timestamp = r.last
          /\ cache[k].uri.obj = r.n
    /\ nextCleanup = FIVE_MINUTES =>
          \A id \in Paths \X Queries :
              reads[id].last # Never <=> \E k \in DOMAIN cache : Canonical(cache[k].uri) = id

\* One identifier was read twice, at different times, through different Uri
\* objects, and has one entry, with the time and the Uri of the second read;
\* a read of a path no repository owns left no entry.
C20_Witness ==
    /\ \E id \in Paths \X Queries :
          /\ reads[id].n = 2
          /\ reads[id].refreshed
          /\ Cardinality(DOMAIN cache) = 1
          /\ \E k \in DOMAIN cache :
                /\ Canonical(cache[k].uri) = id
                /\ cache[k].timestamp = reads[id].last
                /\ cache[k].uri.obj = 2
    /\ \E id \in Paths \X Queries : reads[id].n > 0 /\ reads[id].last = Never

\* ================================ JJFileSystemProvider: change notification

\* path.sep
sep == "/"

\* The characters of a path or root of the model.
Chars(path) ==
    CASE path = "/r"       -> <<"/", "r">>
      [] path = "/R"       -> <<"/", "R">>
      [] path = "/r/a.txt" -> <<"/", "r", "/", "a", ".", "t", "x", "t">>
      [] path = "/r/A.txt" -> <<"/", "r", "/", "A", ".", "t", "x", "t">>
      [] path = "/r/c.txt" -> <<"/", "r", "/", "c", ".", "t", "x", "t">>
      [] path = "/x/b.txt" -> <<"/", "x", "/", "b", ".", "t", "x", "t">>

\* toLowerCase of one character.
LowerChar(c) == IF c = "A" THEN "a" ELSE IF c = "R" THEN "r" ELSE c

\* normalizePath, character by character.
NormalizeChars(cs) == IF caseInsensitive THEN [i \in DOMAIN cs |-> LowerChar(cs[i])] ELSE cs

\* s.startsWith(prefix)
StartsWith(s, prefix) == Len(prefix) <= Len(s) /\ SubSeq(s, 1, Len(prefix)) = prefix

\* `parent === descendant`, line 82.
SamePath(parent, descendant) == parent = descendant

\* isDescendant(parent, descendant), lines 81-91.
IsDescendant(parent, descendant) ==
    IF SamePath(parent, descendant) THEN TRUE
    ELSE LET p == Chars(parent)
             withSep == IF p[Len(p)] # sep THEN Append(p, sep) ELSE p
         IN  StartsWith(NormalizeChars(Chars(descendant)), NormalizeChars(withSep))

\* The events the loops of lines 67-74 push for one row: `break` leaves the
\* inner loop at the first root that matches.
EventsPerRowNoBreak(uri, roots) == Cardinality({root \in roots : IsDescendant(root, uri.fsPath)})

EventsPerRow(uri, roots) == IF \E root \in roots : IsDescendant(root, uri.fsPath) THEN 1 ELSE 0

\* The array `events` after the loops: per row that has events, the event and
\* how many times it was pushed.
ScanEvents(roots) ==
    LET n(k) == EventsPerRow([fsPath |-> cache[k].uri.path], roots) IN
    [k \in {kk \in DOMAIN cache : n(kk) > 0} |->
        [type |-> "Changed", uri |-> cache[k].uri, count |-> n(k)]]

\* `events.length > 0`, line 76.
FiresEmptyToo(ev) == TRUE

Fires(ev) == DOMAIN ev # {}

\* `this.changedRepositoryRoots.clear()`, line 81.
RootsKept(roots) == roots

RootsCleared(roots) == {}

\* Lines 65-81, the scan of an execution of _fireChangeEvents: roots is
\* changedRepositoryRoots when it runs.
Scan(roots) ==
    LET ev == ScanEvents(roots) IN
    /\ fired' = IF Fires(ev) THEN [count |-> fired.count + 1, last |-> ev] ELSE fired
    /\ mtime' = IF Fires(ev) THEN now ELSE mtime
    /\ changedRepositoryRoots' = RootsCleared(roots)

\* The suspended execution goes on only when the window is focused, line 57.
SuspendsNever == FALSE

Suspends == ~focused

\* An execution r of _fireChangeEvents begins, lines 57-63, with roots pending:
\* it runs to its end, or it suspends until the window is focused.
PassBegins(r, roots) ==
    IF Suspends
    THEN /\ waiting' = r
         /\ changedRepositoryRoots' = roots
         /\ pass' = [run |-> r, gated |-> TRUE, scanned |-> FALSE, roots |-> {}, signalled |-> {}]
         /\ UNCHANGED <<fired, mtime>>
    ELSE /\ Scan(roots)
         /\ pass' = [run |-> r, gated |-> FALSE, scanned |-> TRUE, roots |-> roots, signalled |-> {}]
         /\ UNCHANGED waiting

\* The arguments of `this.fireChangeEvents()`: none.
NoArgs == "[]"

\* `this.changedRepositoryRoots.add(repositoryRoot)`, line 51.
RootDropped(roots, root) == roots

RootAdded(roots, root) == roots \cup {root}

\* onDidChangeRepository({repositoryRoot}), lines 50-53.
OnDidChangeRepository(root) ==
    /\ ThrottledFnCall(NoArgs, ~Suspends)
    /\ signals' = signals \cup {root}
    /\ LET roots == RootAdded(changedRepositoryRoots, root) IN
       IF ~IsBusy
       THEN PassBegins(Len(promises) + 1, roots)
       ELSE /\ changedRepositoryRoots' = roots
            /\ pass' = IF waiting # 0 THEN [pass EXCEPT !.signalled = @ \cup {root}] ELSE pass
            /\ UNCHANGED <<fired, mtime, waiting>>
    /\ UNCHANGED <<focused, thrown>>
    /\ UNCHANGED <<lockVars, dedupVars, providerVars, resolverVars>>

\* The handlers of runPromise.then of the throttle of fireChangeEvents: the
\* queued execution of _fireChangeEvents begins within them.
NotifierReaction ==
    /\ RunReactionStep(~Suspends)
    /\ IF StartsQueuedRun
       THEN PassBegins(Len(promises) + 1, changedRepositoryRoots)
       ELSE UNCHANGED <<changedRepositoryRoots, mtime, fired, waiting, pass>>
    /\ UNCHANGED <<focused, thrown, signals>>
    /\ UNCHANGED <<lockVars, dedupVars, providerVars, resolverVars>>

\* window.onDidChangeWindowState fires with e.focused = f: the execution
\* suspended in line 62 goes on when f holds (lines 58-62) and runs to its end.
DidChangeWindowState(f) ==
    /\ focused' = f
    /\ IF f /\ waiting # 0
       THEN /\ Scan(changedRepositoryRoots)
            /\ pass' = [pass EXCEPT !.scanned = TRUE, !.roots = changedRepositoryRoots]
            /\ waiting' = 0
            /\ promises' = [promises EXCEPT ![waiting].status = "resolved", ![waiting].value = waiting]
            /\ jobs' = jobs \o ReactionsOf(waiting, promises[waiting].link)
       ELSE UNCHANGED <<changedRepositoryRoots, mtime, fired, waiting, pass, promises, jobs>>
    /\ UNCHANGED <<state, queuedArgs, queuedRunPromise, queuedRunResolver, queuedRunRejector, tcalls>>
    /\ UNCHANGED <<thrown, signals>>
    /\ UNCHANGED <<lockVars, dedupVars, providerVars, resolverVars>>

\* The outcome of a call of an operation that is not implemented, recorded
\* in `thrown`: `throw new Error("Method not implemented.")`, kept with the
\* operation that threw.  A call that returned would be recorded as "returned".
ReturnsSilently(op) == "returned"

NotImplemented(op) == op

\* readDirectory, createDirectory, writeFile, delete, rename (lines 117-123
\* and 193-203).
Unsupported(op) ==
    /\ thrown' = NotImplemented(op)
    /\ UNCHANGED <<changedRepositoryRoots, mtime, focused, fired, waiting, pass, signals>>
    /\ UNCHANGED <<lockVars, throttleVars, dedupVars, providerVars, resolverVars>>

NotifierInit ==
    /\ changedRepositoryRoots = {}
    /\ mtime = 0
    /\ focused = TRUE
    /\ fired = [count |-> 0, last |-> [k \in {} |-> 0]]
    /\ waiting = 0
    /\ pass = [run |-> 0, gated |-> FALSE, scanned |-> FALSE, roots |-> {}, signalled |-> {}]
    /\ thrown = "none"
    /\ signals = {}

\* The calls VS Code and the timers make begin in a task of their own, when
\* no promise reaction is pending; a watcher may signal several roots in one
\* task.
NotifierNext ==
    \/ \E root \in Roots : OnDidChangeRepository(root)
    \/ NotifierReaction
    \/ LinkReaction
    \/ jobs = <<>> /\ \E f \in BOOLEAN : DidChangeWindowState(f)
    \/ jobs = <<>> /\ \E path \in NotifierPaths, query \in Queries : ReadFile(path, query)

\* Change notification over time: the clock and the sweep of the cache, with
\* one root and one resource.
StampNext ==
    \/ \E root \in StampRoots : OnDidChangeRepository(root)
    \/ NotifierReaction
    \/ LinkReaction
    \/ jobs = <<>> /\ \E f \in BOOLEAN : DidChangeWindowState(f)
    \/ jobs = <<>> /\ \E path \in StampPaths, query \in Queries : ReadFile(path, query)
    \/ jobs = <<>> /\ Cleanup
    \/ jobs = <<>> /\ \E delta \in StampDeltas : Tick(delta)

\* The operations that are not implemented, called while the cache, the
\* pending roots and mtime change, with one root and one resource.
ReadOnlyNext ==
    \/ jobs = <<>> /\ \E op \in UnsupportedOps : Unsupported(op)
    \/ \E root \in StampRoots : OnDidChangeRepository(root)
    \/ NotifierReaction
    \/ LinkReaction
    \/ jobs = <<>> /\ \E f \in BOOLEAN : DidChangeWindowState(f)
    \/ jobs = <<>> /\ \E path \in StampPaths, query \in Queries : ReadFile(path, query)
    \/ jobs = <<>> /\ \E delta \in StampDeltas : Tick(delta)

\* Change notification followed to the end: both roots, one resource.
NotifierLiveNext ==
    \/ \E root \in Roots : OnDidChangeRepository(root)
    \/ NotifierReaction
    \/ LinkReaction
    \/ jobs = <<>> /\ \E f \in BOOLEAN : DidChangeWindowState(f)
    \/ jobs = <<>> /\ \E path \in StampPaths, query \in Queries : ReadFile(path, query)

\* The event loop runs every promise reaction, and the window is focused
\* again when an execution of _fireChangeEvents waits for it.
NotifierFairness ==
    /\ WF_vars(NotifierReaction)
    /\ WF_vars(LinkReaction)
    /\ WF_vars(jobs = <<>> /\ DidChangeWindowState(TRUE))

\* ---------------------- JJFileSystemProvider: change notification, properties

\* C21: a sweep fires no event, leaves mtime and changedRepositoryRoots as they
\* are, adds no entry, and leaves every entry that survives under its key with
\* its uri and timestamp.
C21_SweepSilent ==
    [][nextCleanup' # nextCleanup =>
          /\ fired' = fired
          /\ mtime' = mtime
          /\ changedRepositoryRoots' = changedRepositoryRoots
          /\ DOMAIN cache' \subseteq DOMAIN cache
          /\ \A k \in DOMAIN cache' :
                /\ cache'[k].timestamp = cache[k].timestamp
                /\ cache'[k].uri = cache[k].uri
      ]_vars

\* A sweep has just run while a root was pending and after an event was
\* fired, and an entry older than the sweep survived it.
C21_Witness ==
    /\ lastSweep.at = now
    /\ nextCleanup > FIVE_MINUTES
    /\ changedRepositoryRoots # {}
    /\ fired.count > 0
    /\ mtime > 0
    /\ \E k \in DOMAIN cache : k \in DOMAIN lastSweep.before /\ cache[k].timestamp < now

\* The step is the scan of an execution of _fireChangeEvents: one that began
\* and ran to its end, or the suspended one going on.
IsScanStep == pass'.scanned /\ (pass'.run # pass.run \/ ~pass.scanned)

\* A path lies under a root: every path read lies in the directory /r, which
\* /R names too where the case of letters is ignored.
UnderRoot(root, path) ==
    /\ path \in {"/r/a.txt", "/r/A.txt", "/r/c.txt"}
    /\ root = "/r" \/ (root = "/R" /\ caseInsensitive)

\* C22: a pass fires exactly one Changed event for each cache entry whose path
\* lies under at least one pending root and none for any other entry, all in
\* one call of fire; nothing else fires events.
C22_OneEventPerMatch ==
    [][/\ fired' # fired => IsScanStep
       /\ IsScanStep =>
             LET hit == {k \in DOMAIN cache :
                            \E root \in pass'.roots : UnderRoot(root, cache[k].uri.path)}
             IN  /\ changedRepositoryRoots \subseteq pass'.roots
                 /\ IF hit = {}
                    THEN fired' = fired
                    ELSE /\ fired'.count = fired.count + 1
                         /\ DOMAIN fired'.last = hit
                         /\ \A k \in hit : fired'.last[k] =
                                [type |-> "Changed", uri |-> cache[k].uri, count |-> 1]
      ]_vars

\* A pass scanned two entries with both roots pending, each root matching
\* both, and fired one call with one event for each entry.
C22_Witness ==
    /\ pass.scanned
    /\ pass.roots = {"/r", "/R"}
    /\ caseInsensitive
    /\ fired.count = 1
    /\ Cardinality(DOMAIN fired.last) = 2
    /\ \A k \in DOMAIN fired.last : fired.last[k].count = 1

\* C23: mtime changes only in a pass that fires at least one event, and then
\* to the current time; a pass that fires nothing leaves it as it is.
C23_StampOnlyOnEvents ==
    [][/\ mtime' # mtime =>
             /\ IsScanStep
             /\ fired'.count = fired.count + 1
             /\ DOMAIN fired'.last # {}
             /\ mtime' = now
       /\ IsScanStep /\ fired' = fired => mtime' = mtime
       /\ IsScanStep /\ fired' # fired => mtime' = now
      ]_vars

\* Two executions ran to their end: one fired events and advanced mtime from
\* its initial value to the time it ran at, the other fired nothing.
C23_Witness ==
    /\ Cardinality({r \in PromiseIds : promises[r].kind = "run" /\ promises[r].status = "resolved"}) = 2
    /\ InFlight = {}
    /\ fired.count = 1
    /\ mtime = now
    /\ mtime > 0

\* C24: an execution that begins while the window is not focused suspends;
\* as long as it is suspended no event is fired and no pending root is
\* dropped; it goes on only at a signal that the window is focused, and then
\* scans all pending roots, those signalled during the suspension included.
C24_FocusGating ==
    [][/\ pass'.run # pass.run /\ ~focused =>
             /\ waiting' = pass'.run
             /\ ~pass'.scanned
             /\ fired' = fired
       /\ waiting # 0 /\ waiting' # 0 =>
             /\ waiting' = waiting
             /\ fired' = fired
             /\ mtime' = mtime
             /\ changedRepositoryRoots \subseteq changedRepositoryRoots'
             /\ pass.signalled \subseteq pass'.signalled
             /\ pass'.signalled \subseteq changedRepositoryRoots'
       /\ waiting # 0 /\ waiting' = 0 =>
             /\ ~focused
             /\ focused'
             /\ IsScanStep
             /\ pass'.run = waiting
             /\ pass'.roots = changedRepositoryRoots
             /\ pass.signalled \subseteq pass'.roots
      ]_vars

\* An execution began unfocused with one root pending, another root was
\* signalled while it was suspended, and after the window was focused it
\* scanned both and fired events.
C24_Witness ==
    /\ pass.gated
    /\ pass.scanned
    /\ pass.signalled # {}
    /\ pass.roots = Roots
    /\ pass.signalled # pass.roots
    /\ fired.count = 1
    /\ changedRepositoryRoots = {}

\* No execution completes between the calls i and j of fireChangeEvents: the
\* execution in flight at call j was in flight at call i, or call i began it.
NoCompletionBetween(i, j) ==
    /\ tcalls[j].inflight # {}
    /\ \/ tcalls[j].inflight = tcalls[i].inflight
       \/ tcalls[j].inflight = {tcalls[i].promise}

\* The two calls made so far were for one root, and no execution completed
\* between them.
TwoCallsOneWindow ==
    /\ Len(tcalls) = 2
    /\ Cardinality(signals) = 1
    /\ NoCompletionBetween(1, 2)

\* C25 as stated: two calls for one root with no execution completing between
\* them produce at most one execution of _fireChangeEvents.
C25_AtMostOneExecution == TwoCallsOneWindow => Cardinality(Runs) <= 1

\* C25 as amended: two calls for one root with no execution completing
\* between them produce the execution in flight at the second call and at
\* most one queued behind it; at most one of the two fires events, and the
\* one in flight at the second call fires a change event for every cache entry
\* under the root when it scans.
C25_OneNotification ==
    [][TwoCallsOneWindow' =>
          /\ Cardinality(Runs') <= 2
          /\ fired'.count <= 1
          /\ IsScanStep /\ pass'.run = tcalls[1].promise =>
                /\ signals \subseteq pass'.roots
                /\ \A k \in DOMAIN cache :
                      (\E root \in signals : UnderRoot(root, cache[k].uri.path)) =>
                          /\ k \in DOMAIN fired'.last
                          /\ fired'.last[k].uri = cache[k].uri
                          /\ fired'.last[k].count = 1
      ]_vars

\* Two calls for /r came while the window was not focused; the execution the
\* first began fired the events of two entries once the window was focused,
\* and the execution queued by the second ran after it and fired nothing.
C25_Witness ==
    /\ TwoCallsOneWindow
    /\ signals = {"/r"}
    /\ Cardinality(Runs) = 2
    /\ InFlight = {}
    /\ jobs = <<>>
    /\ fired.count = 1
    /\ Cardinality(DOMAIN fired.last) = 2

\* C35: no signal of a changed root is lost.  A call of onDidChangeRepository
\* leaves its root pending or scans it at once; a root stops being pending
\* only in the scan of an execution of _fireChangeEvents, which scans every
\* root that was pending and leaves none; and, the window being focused again
\* in the end, every pending root is scanned.
C35_NoSignalLost ==
    /\ [][/\ \A root \in Roots :
               OnDidChangeRepository(root) =>
                   \/ root \in changedRepositoryRoots'
                   \/ IsScanStep /\ root \in pass'.roots
          /\ IsScanStep =>
                /\ changedRepositoryRoots' = {}
                /\ changedRepositoryRoots \subseteq pass'.roots
          /\ \A root \in changedRepositoryRoots \ changedRepositoryRoots' :
                IsScanStep /\ root \in pass'.roots
         ]_vars
    /\ \A root \in Roots :
          (root \in changedRepositoryRoots) ~>
              (root \notin changedRepositoryRoots /\ pass.scanned /\ root \in pass.roots)

\* A root signalled while an execution waited for the window to be focused
\* was scanned by that execution, together with the root that started it.
C35_Witness ==
    /\ pass.gated /\ pass.scanned
    /\ pass.signalled = {"/R"}
    /\ pass.roots = {"/r", "/R"}
    /\ changedRepositoryRoots = {}

\* ------------------------------------- JJFileSystemProvider: readFile content

\* A value a promise settles with: a Buffer or a string it resolves with, or
\* the message of the error it rejects with.
Buffer(data) == [isResolved |-> TRUE, isBuffer |-> TRUE, data |-> data]

Sentinel(data) == [isResolved |-> TRUE, isBuffer |-> FALSE, data |-> data]

Rejection(message) == [isResolved |-> FALSE, isBuffer |-> FALSE, data |-> message]

Pending == [isResolved |-> FALSE, isBuffer |-> FALSE, data |-> "pending"]

\* FileSystemError.FileNotFound()
FileNotFound == Rejection("FileNotFound")

\* getParams(uri): the query names a revision or the revision a diff starts from.
GetParams(query) ==
    IF query \in DiffQueries THEN [isDiff |-> TRUE, rev |-> "@-"]
    ELSE [isDiff |-> FALSE, rev |-> "@"]

\* What repository.getDiffOriginal(rev, path) may settle with.
DiffOriginalAnswers ==
    {Sentinel("NOT_MODIFIED"), Sentinel("ADDED"), Buffer("original")}
        \cup {Rejection(m) : m \in ErrorMessages}

\* What repository.readFile(rev, path) may settle with.
ReadFileAnswers == {Buffer("data")} \cup {Rejection(m) : m \in ErrorMessages}

\* The answers of the accessor that make a read go on or fail.
RefreshAnswers == {Sentinel("NOT_MODIFIED")} \cup {Rejection(m) : m \in ErrorMessages}

AnswersOf(fn) == IF fn = "getDiffOriginal" THEN DiffOriginalAnswers ELSE ReadFileAnswers

\* e.message.includes("No such path"), on the messages of the model.
IncludesNoSuchPath(message) == message = "Error: No such path: a.txt"

\* The cache as it is when the first accessor call is made, line 158 or 182:
\* after `this.cache.set` of line 155.
CacheBeforeSet(before, after) == before

CacheAtCall(before, after) == after

\* repository.getDiffOriginal or repository.readFile is called.
AccessorCall(fn, rev, path, recorded) ==
    [fn |-> fn, rev |-> rev, path |-> path, recorded |-> recorded, answer |-> Pending]

\* The revision of the read that stands in for an original that is not
\* modified, lines 163-166.
FallbackRevWorkingCopy(params) == "@"

FallbackRev(params) == params.rev

\* What the catch clauses of lines 168-173 and 184-189 throw for a rejection
\* of repository.readFile.
CatchKeepsAll(answer) == answer

Catch(answer) == IF IncludesNoSuchPath(answer.data) THEN FileNotFound ELSE answer

\* What readFile does with "ADDED", line 177: Buffer.from("").
AddedContentOriginal(answer) == answer

AddedContent(answer) == Buffer("")

\* readFile(uri) up to its first await, lines 145-158 or 145-182.
ResolveBegin(path, query) ==
    /\ RecordRead(path, query)
    /\ LET params == GetParams(query)
           key    == UriToString([path |-> path, query |-> query])
           seen   == CacheAtCall(cache, cache')
           call   == AccessorCall(IF params.isDiff THEN "getDiffOriginal" ELSE "readFile",
                                  params.rev, path,
                                  key \in DOMAIN seen /\ seen[key].timestamp = now)
       IN  rcalls' = Append(rcalls,
                            IF ~HasRepository(path)
                            THEN [path |-> path, query |-> query, at |-> now,
                                  calls |-> <<>>, result |-> FileNotFound]
                            ELSE [path |-> path, query |-> query, at |-> now,
                                  calls |-> <<call>>, result |-> Pending])
    /\ UNCHANGED <<lockVars, throttleVars, dedupVars, notifierVars>>

\* The accessor call readFile(uri) awaits settles, and readFile goes on to
\* its next await or to its end, lines 158-190.
ResolveResumes(i, answer) ==
    /\ i \in 1..Len(rcalls)
    /\ rcalls[i].result = Pending
    /\ LET r      == rcalls[i]
           n      == Len(r.calls)
           c      == r.calls[n]
           params == GetParams(r.query)
           done   == [r.calls EXCEPT ![n].answer = answer]
       IN
       /\ answer \in AnswersOf(c.fn)
       /\ rcalls' = [rcalls EXCEPT ![i] =
              IF c.fn = "getDiffOriginal"
              THEN IF ~answer.isResolved
                   THEN [r EXCEPT !.calls = done, !.result = answer]
                   ELSE IF answer = Sentinel("NOT_MODIFIED")
                   THEN [r EXCEPT !.calls = Append(done,
                            AccessorCall("readFile", FallbackRev(params), r.path, TRUE))]
                   ELSE IF answer = Sentinel("ADDED")
                   THEN [r EXCEPT !.calls = done, !.result = AddedContent(answer)]
                   ELSE [r EXCEPT !.calls = done, !.result = answer]
              ELSE IF answer.isResolved
                   THEN [r EXCEPT !.calls = done, !.result = answer]
                   ELSE [r EXCEPT !.calls = done, !.result = Catch(answer)]]
    /\ UNCHANGED <<lockVars, throttleVars, dedupVars, providerVars, notifierVars>>

ResolverInit == rcalls = <<>>

ResolverNext ==
    \/ \E id \in Resources : ResolveBegin(id[1], id[2])
    \/ \E i \in 1..MaxReads, answer \in DiffOriginalAnswers \cup ReadFileAnswers :
          ResolveResumes(i, answer)

\* Reads of one resource as the original of a diff, as time passes and the
\* accessor finds nothing modified or fails.
RefreshNext ==
    \/ \E id \in RefreshResources : ResolveBegin(id[1], id[2])
    \/ \E i \in 1..MaxReads, answer \in RefreshAnswers : ResolveResumes(i, answer)
    \/ \E delta \in ResolverDeltas : Tick(delta)

\* ------------------------------ JJFileSystemProvider: readFile, properties

\* The reads of a resource as the original of a diff.
DiffReads == {i \in 1..Len(rcalls) : rcalls[i].query \in DiffQueries /\ rcalls[i].calls # <<>>}

\* The step is the beginning of a readFile call.
IsReadStep == Len(rcalls') = Len(rcalls) + 1

\* C26: for a read of the original of a diff, getDiffOriginal answering
\* "ADDED" yields an empty Buffer; answering "NOT_MODIFIED" yields the bytes
\* repository.readFile answers for the same revision and path; any other
\* answer is returned as it is.
C26_Sentinels ==
    \A i \in DiffReads :
        LET r == rcalls[i]
            c == r.calls[1]
        IN  /\ c.fn = "getDiffOriginal"
            /\ c.answer = Sentinel("ADDED") => r.result = Buffer("") /\ Len(r.calls) = 1
            /\ c.answer = Sentinel("NOT_MODIFIED") =>
                  /\ Len(r.calls) = 2
                  /\ r.calls[2].fn = "readFile"
                  /\ r.calls[2].rev = c.rev
                  /\ r.calls[2].path = c.path
                  /\ r.calls[2].answer.isResolved => r.result = r.calls[2].answer
            /\ c.answer.isResolved /\ c.answer.isBuffer =>
                  r.result = c.answer /\ Len(r.calls) = 1

\* Three reads of the original of a diff were answered "ADDED", "NOT_MODIFIED"
\* followed by the bytes of the file, and the bytes of the original.
C26_Witness ==
    /\ Len(rcalls) = 3
    /\ \A i \in 1..3 : rcalls[i].query = "diff" /\ rcalls[i].path = "/r/a.txt"
    /\ rcalls[1].calls[1].answer = Sentinel("ADDED") /\ rcalls[1].result = Buffer("")
    /\ rcalls[2].calls[1].answer = Sentinel("NOT_MODIFIED")
    /\ Len(rcalls[2].calls) = 2 /\ rcalls[2].calls[2].rev = "@-"
    /\ rcalls[2].result = Buffer("data")
    /\ rcalls[3].result = Buffer("original")

\* C27: whichever accessor call of a read rejects, readFile throws
\* FileNotFound if the message includes "No such path", and the error of the
\* accessor as it is otherwise.
C27_NotFoundMapping ==
    \A i \in 1..Len(rcalls) :
        \A n \in 1..Len(rcalls[i].calls) :
            LET answer == rcalls[i].calls[n].answer IN
            (answer # Pending /\ ~answer.isResolved) =>
                rcalls[i].result = IF IncludesNoSuchPath(answer.data) THEN FileNotFound ELSE answer

\* C28: readFile of a path no repository owns throws FileNotFound, calls no
\* accessor and leaves the cache as it is.
C28_UnownedPath ==
    [][IsReadStep /\ rcalls'[Len(rcalls')].path = "/x/b.txt" =>
          /\ rcalls'[Len(rcalls')].result = FileNotFound
          /\ rcalls'[Len(rcalls')].calls = <<>>
          /\ cache' = cache
      ]_vars

\* A path no repository owns was read after a resource of a repository, which
\* is cached.
C28_Witness ==
    /\ Len(rcalls) = 2
    /\ rcalls[1].path = "/r/a.txt"
    /\ rcalls[2].path = "/x/b.txt" /\ rcalls[2].result = FileNotFound
    /\ DOMAIN cache = {UriToString([path |-> "/r/a.txt", query |-> rcalls[1].query])}

\* The reads that failed.
FailedReads == {i \in 1..Len(rcalls) : rcalls[i].result # Pending /\ ~rcalls[i].result.isResolved}

\* C29: readFile of a resource of a repository puts the resource in the cache
\* with the time of the read before its first accessor call, and what the
\* accessor answers later leaves the cache as it is: the entry is there, no
\* older than the read, when the read has failed.
C29_RecordedBeforeResolving ==
    [][/\ IsReadStep /\ rcalls'[Len(rcalls')].path = "/r/a.txt" =>
             LET r   == rcalls'[Len(rcalls')]
                 key == UriToString([path |-> r.path, query |-> r.query])
             IN  /\ Len(r.calls) = 1
                 /\ r.calls[1].recorded
                 /\ key \in DOMAIN cache' /\ cache'[key].timestamp = now
       /\ ~IsReadStep /\ rcalls' # rcalls => cache' = cache
       /\ \A i \in FailedReads' :
             LET key == UriToString([path |-> rcalls'[i].path, query |-> rcalls'[i].query])
             IN  key \in DOMAIN cache' /\ cache'[key].timestamp >= rcalls'[i].at
      ]_vars

\* A resource read at 0 was read again at 1000, which failed with
\* FileNotFound, and at 2000, which failed with the error of the accessor:
\* its entry has the time of the last read.
C29_Witness ==
    /\ Len(rcalls) = 3
    /\ rcalls[1].at = 0 /\ rcalls[2].at = 1000 /\ rcalls[3].at = 2000
    /\ rcalls[2].result = FileNotFound
    /\ rcalls[3].result = Rejection("Error: jj exited with 1")
    /\ cache[UriToString([path |-> "/r/a.txt", query |-> "diff"])].timestamp = 2000

\* The step is a call of one of the operations that are not implemented:
\* no other step changes what was thrown last.
IsUnsupportedCall(op) == thrown' = op /\ thrown # op

\* C30: every call of readDirectory, createDirectory, writeFile, delete or
\* rename throws, and leaves the cache, changedRepositoryRoots and mtime as
\* they are.
C30_UnsupportedThrows ==
    [][/\ thrown' \in UnsupportedOps \cup {"none"}
       /\ thrown' # thrown => thrown' \in UnsupportedOps
       /\ \A op \in UnsupportedOps :
             IsUnsupportedCall(op) =>
                 /\ cache' = cache
                 /\ changedRepositoryRoots' = changedRepositoryRoots
                 /\ mtime' = mtime
                 /\ fired' = fired
      ]_vars

\* rename has just thrown while a resource was cached, a root was pending
\* and mtime had been advanced.
C30_Witness ==
    /\ thrown = "rename"
    /\ DOMAIN cache # {}
    /\ changedRepositoryRoots # {}
    /\ mtime > 0

\* ========================================================= specifications

Init == LockInit /\ ThrottleInit /\ DedupInit /\ ProviderInit /\ NotifierInit /\ ResolverInit

SpecLock == Init /\ [][LockNext]_vars

SpecLockLive == Init /\ [][LockLiveNext]_vars /\ LockFairness

SpecThrottle == Init /\ [][ThrottleNext]_vars

SpecThrottleLive == Init /\ [][ThrottleLiveNext]_vars /\ ThrottleFairness

SpecDedup == Init /\ [][DedupNext]_vars

SpecProvider == Init /\ [][ProviderNext]_vars

SpecNotifier == Init /\ [][NotifierNext]_vars

SpecNotifierLive == Init /\ [][NotifierLiveNext]_vars /\ NotifierFairness

SpecStamp == Init /\ [][StampNext]_vars

SpecReadOnly == Init /\ [][ReadOnlyNext]_vars

SpecResolver == Init /\ [][ResolverNext]_vars

SpecRefresh == Init /\ [][RefreshNext]_vars

=============================================================================
